---- MODULE Spec2Model ----
(***************************************************************************)
(* The PADME enforcer (src/enforcer/enforcer.go): the handler registry,    *)
(* the plugin registry and its lifecycle, and the bundle Apply/Fetch       *)
(* operations, over a policy repository.                                   *)
(*                                                                         *)
(* Every API call is one action; each action records in `last` which call  *)
(* was made, with what arguments, and what it returned.                    *)
(***************************************************************************)
EXTENDS Integers, Sequences, FiniteSets

VARIABLES
    Store,              \* the repository's persisted bundle, or Nil
    Handlers,           \* Enforcer.Handlers: handler id -> handler instance
    RegisteredPlugins,  \* Enforcer.RegisteredPlugins: plugin id -> loadedPlugin
    handled,            \* per handler instance: the Handle calls it received
    pluginCalls,        \* per plugin instance: the Apply/Remove calls it received
    last,               \* the most recent API call and its result
    threads             \* per goroutine: the call it is in, where, and its locals

vars == <<Store, Handlers, RegisteredPlugins, handled, pluginCalls, last, threads>>

-----------------------------------------------------------------------------
(* Bounds of the model. *)

\* Handle calls one handler instance receives in one behaviour.
MaxHandled == 2

\* Apply/Remove calls the plugin instances receive, in total, in one behaviour.
MaxCalls == 4

\* Handle, Apply and Remove calls made in total in one behaviour in which
\* handlers and plugins are registered side by side.
MaxEffects == 1

\* Handlers and plugins registered at a time, in total, in one behaviour in
\* which both registries go through their whole lifecycle.
MaxRegistered == 2

\* Apply calls the plugin instances receive, in total, in one behaviour of
\* goroutines calling the plugin API side by side.
MaxRacingCalls == 2

\* Handle calls the handler instances receive, in total, in one behaviour in
\* which the handler registry changes while Apply notifies.
MaxNotified == 2

-----------------------------------------------------------------------------
(* Data model: policies, bundles, plugins, handlers. *)

\* A nil *PolicyBundle.
Nil == [nil |-> TRUE]

\* A rule: a named property of a request and the value it is compared with.
Rule(name, value) == [Name |-> name, Value |-> value]

R1 == Rule("dest_port", "443")
R2 == Rule("proto", "tcp")

\* A RuleSet with operator NONE wraps one rule; And wraps both its operands in
\* a new RuleSet.
Leaf(rule) == [OOperator |-> "NONE", RRule |-> rule]

And(left, right) == [OOperator |-> "AND", LArg |-> left, RArg |-> right]

\* The credential presented with a request.
Credential(name, value) == [Name |-> name, Value |-> value]

Credentials == {Credential("PADME", "PADME"), Credential("guest", "none")}

\* The property lists of the requests made.
PropertyLists == {<<>>, <<R1>>, <<R2>>, <<R1, R2>>, <<R2, R1>>}

PolicyContent(pluginID, blob) == [PluginID |-> pluginID, Blob |-> blob]

\* A validity window: from start up to end; end = 0 is an absent end, the
\* window then lasting indefinitely.
Duration(start, end) == [Start |-> start, End |-> end]

\* The instants at which calls are made.
Times == {1, 2, 3}

\* The window holds at instant t.
ActiveAt(duration, t) ==
    /\ duration.Start <= t
    /\ duration.End = 0 \/ t < duration.End

Policy(uuid, ruleset, duration, contents) ==
    [UUID |-> uuid, RuleSet |-> ruleset, Duration |-> duration,
     CContents |-> contents]

\* The policies the bundles below are made of: one addressed to "fw", valid
\* at all times; one without content, whose window has ended; one with
\* content for both plugins, "fw" twice, whose window starts at instant 2.
\* The first two match requests for port 443, the third those over tcp too.
P1 == Policy("u1", Leaf(R1), Duration(0, 0), <<PolicyContent("fw", "b1")>>)
P2 == Policy("u2", Leaf(R1), Duration(0, 1), <<>>)
P3 == Policy("u3", And(Leaf(R1), Leaf(R2)), Duration(2, 0),
             <<PolicyContent("fw", "b3"), PolicyContent("px", "b2"),
               PolicyContent("fw", "b4")>>)

\* Every policy a bundle may hold.
Policies == {P1, P2, P3}

PolicyBundle(version, description, policies) ==
    [PolicyVersion |-> version, Description |-> description, Policies |-> policies]

\* The bundles a controller may ship.
Bundles ==
    { PolicyBundle(2, "a", <<P1, P2>>),
      PolicyBundle(1, "b", <<P3, P1>>) }

\* Plugin instances and the id each reports: two distinct instances share "fw".
PluginInstances == {"fw1", "fw2", "px1"}

ID(plugin) == IF plugin = "px1" THEN "px" ELSE "fw"

PluginIDs == {"fw", "px"}

\* The policies each plugin instance refuses, answering ok = false to Apply
\* and to Remove: "fw1" accepts everything, "fw2" refuses one policy, "px1"
\* refuses them all.
Refused ==
    [p \in PluginInstances |->
        IF p = "fw2" THEN {"u3"} ELSE IF p = "px1" THEN {"u1", "u2", "u3"} ELSE {}]

\* Handler instances and the ids callers register them under.
HandlerInstances == {"h1", "h2"}

HandlerIDs == {"h", "g"}

\* The error text of a failed Save.
SaveError == "save failed"

-----------------------------------------------------------------------------
(* The policy repository (store.PolicyRepository). *)

\* What a Get may come to: the read succeeds, it fails, or it succeeds and
\* yields no bundle (a nil bundle with a nil error).
GetOutcomes == {"ok", "error", "nil"}

\* Get(): the persisted bundle, or an error when there is none or the read
\* fails; io is what the read comes to. The result is <<bundle, ok>>, ok
\* telling that the error is nil.
Get(store, io) ==
    IF io = "nil" THEN <<Nil, TRUE>>
    ELSE IF io = "ok" /\ store # Nil THEN <<store, TRUE>>
    ELSE <<Nil, FALSE>>

\* Save(bundle): replaces the persisted bundle; on an I/O error nothing is
\* written. The result is <<store', err>>, err = "" for no error.
Save(store, bundle, io) ==
    IF io THEN <<bundle, "">> ELSE <<store, SaveError>>

-----------------------------------------------------------------------------
(* Sequence and map helpers. *)

\* m[id] = entry on a Go map.
Put(m, id, entry) ==
    [k \in DOMAIN m \cup {id} |-> IF k = id THEN entry ELSE m[k]]

\* delete(m, id) on a Go map: nothing happens when id is absent.
Delete(m, id) == [k \in DOMAIN m \ {id} |-> m[k]]

RECURSIVE Flatten(_)
Flatten(ss) == IF ss = <<>> THEN <<>> ELSE Head(ss) \o Flatten(Tail(ss))

\* PolicyBundle.Filter: the policies satisfying the predicate, in bundle order.
\* The predicate is a function from policies to booleans.
Filter(bundle, predicate) == SelectSeq(bundle.Policies, LAMBDA p : predicate[p])

-----------------------------------------------------------------------------
(* The matching engine (policy.PolicyBundle.Match). *)

\* The rules at the leaves of a RuleSet.
RECURSIVE LeafRules(_)
LeafRules(ruleset) ==
    IF ruleset.OOperator = "NONE" THEN {ruleset.RRule}
    ELSE LeafRules(ruleset.LArg) \cup LeafRules(ruleset.RArg)

\* A policy's RuleSet against the properties of a resource: a NONE node tests
\* its rule by exact match, AND requires both operands, OR at least one.
RECURSIVE Matches(_, _)
Matches(ruleset, properties) ==
    CASE ruleset.OOperator = "NONE" -> ruleset.RRule \in properties
      [] ruleset.OOperator = "AND" ->
            Matches(ruleset.LArg, properties) /\ Matches(ruleset.RArg, properties)
      [] OTHER ->
            Matches(ruleset.LArg, properties) \/ Matches(ruleset.RArg, properties)

\* The verdicts an applicable policy may render: whether it explicitly
\* accepts, and the permit/deny bit.
Verdicts == [accept : BOOLEAN, allow : BOOLEAN]

\* Match(resource, target, asOf, location) with no target and no location:
\* valid iff a policy active at asOf matches the resource; accept and allow
\* are the verdict rendered.
Match(bundle, resource, asOf, verdict) ==
    [valid  |-> \E i \in 1..Len(bundle.Policies) :
                    /\ ActiveAt(bundle.Policies[i].Duration, asOf)
                    /\ Matches(bundle.Policies[i].RuleSet, LeafRules(resource.Name)),
     accept |-> verdict.accept,
     allow  |-> verdict.allow]

-----------------------------------------------------------------------------
(* Controller API. *)

\* Fetch with its test of the error inverted.
FetchInverted(store, io) ==
    LET got == Get(store, io)
    IN  IF got[2] THEN Nil ELSE got[1]

\* Fetch returning an empty bundle, not nil, when the repository fails.
FetchEmptyOnError(store, io) ==
    LET got == Get(store, io)
    IN  IF ~got[2] THEN [PolicyVersion |-> 0, Description |-> "", Policies |-> <<>>]
        ELSE got[1]

\* Fetch returning an empty bundle, not nil, when the repository yields none.
FetchEmptyOnNil(store, io) ==
    LET got == Get(store, io)
    IN  IF ~got[2] THEN Nil
        ELSE IF got[1] = Nil
             THEN [PolicyVersion |-> 0, Description |-> "", Policies |-> <<>>]
             ELSE got[1]

\* Enforcer.Fetch: the current bundle, nil when the repository fails.
Fetch(store, io) ==
    LET got == Get(store, io)
    IN  IF ~got[2] THEN Nil ELSE got[1]

-----------------------------------------------------------------------------
(* Request level Answer API. *)

\* The loop of assemble replacing the RuleSet by each further property.
RECURSIVE ComposeKeepingLast(_, _)
ComposeKeepingLast(ruleset, rules) ==
    IF rules = <<>> THEN ruleset
    ELSE ComposeKeepingLast(Leaf(Head(rules)), Tail(rules))

\* The loop of assemble: each further property is And-ed to the RuleSet.
RECURSIVE Compose(_, _)
Compose(ruleset, rules) ==
    IF rules = <<>> THEN ruleset
    ELSE Compose(And(ruleset, Leaf(Head(rules))), Tail(rules))

\* assemble taking a request without properties for one that matches any
\* policy for port 443.
assembleEmptyAsDefault(properties, credential) ==
    [err |-> FALSE,
     resource |-> [Name |-> IF properties = <<>> THEN Leaf(R1)
                            ELSE Compose(Leaf(Head(properties)), Tail(properties)),
                   IdentifiedBy |-> credential]]

\* assemble: the resource of a request, its Name the AND of the properties;
\* an error when there is no property.
assemble(properties, credential) ==
    IF Len(properties) = 0
    THEN [err |-> TRUE, resource |-> Nil]
    ELSE [err |-> FALSE,
          resource |-> [Name |-> Compose(Leaf(Head(properties)), Tail(properties)),
                        IdentifiedBy |-> credential]]

\* The result of an Answer that made no match.
Unmatched(ret, fetch) ==
    [ret |-> ret, fetch |-> fetch, resource |-> Nil, matched |-> FALSE,
     valid |-> FALSE, accept |-> FALSE, allow |-> FALSE]

\* Answer allowing the request when there is no bundle.
AnswerWithoutBundleAllowed == TRUE

\* What Answer returns when the bundle cannot be fetched.
AnswerWithoutBundle == FALSE

\* Answer allowing whatever no policy explicitly denies.
AnswerReturnUnlessDenied(valid, accept, allow) == ~accept \/ allow

\* What Answer makes of the result of Match.
AnswerReturn(valid, accept, allow) == valid /\ (~accept \/ allow)

\* Enforcer.Answer: fetches the bundle, assembles the resource, matches it
\* at the current time and returns valid && (!accept || allow); false when
\* there is no bundle or no resource. The result tells, besides the return
\* value, what became of the fetch, the resource assembled and whether Match
\* was called, with what result.
Answer(store, io, properties, credential, now, verdict) ==
    LET bundle == Fetch(store, io)
    IN  IF bundle = Nil THEN Unmatched(AnswerWithoutBundle, "fail")
        ELSE LET assembled == assemble(properties, credential)
             IN  IF assembled.err THEN Unmatched(FALSE, "ok")
                 ELSE LET m == Match(bundle, assembled.resource, now, verdict)
                      IN  [ret |-> AnswerReturn(m.valid, m.accept, m.allow),
                           fetch |-> "ok", resource |-> assembled.resource,
                           matched |-> TRUE,
                           valid |-> m.valid, accept |-> m.accept,
                           allow |-> m.allow]

\* Apply with the event kinds exchanged.
ApplyEventSwapped(err) ==
    IF err # ""
    THEN [event |-> "PolicyApply", details |-> err]
    ELSE [event |-> "PolicyApplyError", details |-> "policy applied"]

\* The event Apply reports for the outcome of Save.
ApplyEvent(err) ==
    IF err # ""
    THEN [event |-> "PolicyApplyError", details |-> err]
    ELSE [event |-> "PolicyApply", details |-> "policy applied"]

\* The Handle call notify makes on a handler.
HandleCall(event, details, bundle) ==
    [event |-> event, policyVersion |-> bundle.PolicyVersion,
     policyDescription |-> bundle.Description, details |-> details]

\* notify that skips the handlers when the apply failed.
NotifyCallsOnSuccessOnly(handlers, h, event, details, bundle) ==
    LET n == IF event = "PolicyApply"
             THEN Cardinality({id \in DOMAIN handlers : handlers[id] = h})
             ELSE 0
    IN  [i \in 1..n |->
            [event |-> event, policyVersion |-> bundle.PolicyVersion,
             policyDescription |-> bundle.Description, details |-> details]]

\* The Handle calls one notify makes on handler instance h: one per registry
\* entry holding it.
NotifyCalls(handlers, h, event, details, bundle) ==
    LET n == Cardinality({id \in DOMAIN handlers : handlers[id] = h})
    IN  [i \in 1..n |-> HandleCall(event, details, bundle)]

\* Enforcer.notify: Handle on every registered handler. The map is ranged
\* over in an unspecified order; each handler's own record of calls does not
\* depend on it.
notify(handlers, log, event, details, bundle) ==
    [h \in DOMAIN log |-> log[h] \o NotifyCalls(handlers, h, event, details, bundle)]

\* What Apply returns.
ApplyReturn(err) == err = ""

\* Enforcer.Apply: Save, then notify with the event for its outcome, then
\* report whether Save succeeded. The result holds the return value, the
\* repository and the handlers' calls.
Apply(store, handlers, log, bundle, io) ==
    LET saved == Save(store, bundle, io)
        ev == ApplyEvent(saved[2])
    IN  [ret |-> ApplyReturn(saved[2]), store |-> saved[1],
         handled |-> notify(handlers, log, ev.event, ev.details, bundle)]

\* RegisterHandler reporting a present id but replacing its handler.
RegisterHandlerReplacing(handlers, id, handler) ==
    [ret |-> id \notin DOMAIN handlers, handlers |-> Put(handlers, id, handler)]

\* Enforcer.RegisterHandler: refuses an id that is present, else inserts the
\* handler under it.
RegisterHandler(handlers, id, handler) ==
    IF id \in DOMAIN handlers
    THEN [ret |-> FALSE, handlers |-> handlers]
    ELSE [ret |-> TRUE, handlers |-> Put(handlers, id, handler)]

\* UnregisterHandler deleting from a copy of the registry.
UnregisterHandlerKeeping(handlers, id) == handlers

\* Enforcer.UnregisterHandler: deletes the id.
UnregisterHandler(handlers, id) == Delete(handlers, id)

-----------------------------------------------------------------------------
(* HTTP surface (cmd/controllers). *)

\* SavePolicies, the handler of POST /policies: decodes the body and, when
\* that succeeds, saves the bundle in the enforcer's repository, ignoring the
\* outcome; a body that does not decode is answered 500. The result holds
\* the repository and the status of the response.
SavePolicies(store, bundle, decodes, io) ==
    IF ~decodes THEN [store |-> store, status |-> 500]
    ELSE [store |-> Save(store, bundle, io)[1], status |-> 200]

-----------------------------------------------------------------------------
(* Plugin API. *)

\* pluginFilter: the predicate that holds of the policies carrying content
\* addressed to the plugin.
pluginFilter(plugin) ==
    [p \in Policies |->
        \E i \in 1..Len(p.CContents) : p.CContents[i].PluginID = ID(plugin)]

ApplyCall(uuid, blob) == [call |-> "Apply", id |-> uuid, data |-> blob]

RemoveCall(uuid) == [call |-> "Remove", id |-> uuid, data |-> ""]

\* Plugin.Apply and Plugin.Remove as the plugin answers them: ok tells whether
\* the policy was applied or removed.
PluginResult(plugin, call) == call.id \notin Refused[plugin]

\* The calls made on a plugin, each with the plugin's answer.
Invoke(plugin, calls) ==
    [i \in 1..Len(calls) |->
        [call |-> calls[i].call, id |-> calls[i].id, data |-> calls[i].data,
         ok |-> PluginResult(plugin, calls[i])]]

\* The content loop without its test of the PluginID.
AllContents(plugin, p) == p.CContents

\* The content entries of policy p that Enable and Disable act on.
MatchingContents(plugin, p) ==
    SelectSeq(p.CContents, LAMBDA c : c.PluginID = ID(plugin))

\* The loop of Enable: plugin.Apply for the matching contents of the filtered
\* policies, in order.
EnableCalls(bundle, plugin) ==
    LET ps == Filter(bundle, pluginFilter(plugin))
    IN  Flatten([i \in 1..Len(ps) |->
            LET cs == MatchingContents(plugin, ps[i])
            IN  [j \in 1..Len(cs) |-> ApplyCall(ps[i].UUID, cs[j].Blob)]])

\* Disable removing each filtered policy once, whatever its contents.
DisableCallsPerPolicy(bundle, plugin) ==
    LET ps == Filter(bundle, pluginFilter(plugin))
    IN  [i \in 1..Len(ps) |-> RemoveCall(ps[i].UUID)]

\* Disable removing every policy of the bundle, scoped to the plugin or not.
DisableCallsUnfiltered(bundle, plugin) ==
    [i \in 1..Len(bundle.Policies) |-> RemoveCall(bundle.Policies[i].UUID)]

\* The loop of Disable: plugin.Remove for the matching contents of the
\* filtered policies, in order.
DisableCalls(bundle, plugin) ==
    LET ps == Filter(bundle, pluginFilter(plugin))
    IN  Flatten([i \in 1..Len(ps) |->
            LET cs == MatchingContents(plugin, ps[i])
            IN  [j \in 1..Len(cs) |-> RemoveCall(ps[i].UUID)]])

\* Enable without its test of the enabled flag.
EnableAllowedIfRegistered(reg, pluginID) == pluginID \in DOMAIN reg

\* The checks Enable makes before it fetches the bundle.
EnableAllowed(reg, pluginID) ==
    /\ pluginID \in DOMAIN reg
    /\ ~reg[pluginID].enabled

\* Disable without its test of the enabled flag.
DisableAllowedIfRegistered(reg, pluginID) == pluginID \in DOMAIN reg

\* The checks Disable makes before it fetches the bundle.
DisableAllowed(reg, pluginID) ==
    /\ pluginID \in DOMAIN reg
    /\ reg[pluginID].enabled

\* The flag Enable leaves on the plugin once the bundle is fetched.
EnabledAfterEnable == TRUE

\* The flag Disable leaves on the plugin once the bundle is fetched.
EnabledAfterDisable == FALSE

\* Enable reporting whether every plugin.Apply succeeded.
EnableReturnAggregated(made) == \A i \in 1..Len(made) : made[i].ok

\* What Enable returns after its loop: true, whatever the plugin answered.
EnableReturn(made) == TRUE

\* What Disable returns after its loop: true, whatever the plugin answered.
DisableReturn(made) == TRUE

\* Plugins listing the enabled plugins only.
PluginsEnabledOnly(reg) ==
    LET ids == {id \in DOMAIN reg : reg[id].enabled}
    IN  {seq \in [1..Cardinality(ids) -> ids] :
            \A i, j \in DOMAIN seq : seq[i] = seq[j] => i = j}

\* Enforcer.Plugins: the keys of the registry, one slot each, in the order the
\* map is ranged over, which is unspecified: the slices it may return.
Plugins(reg) ==
    {seq \in [1..Cardinality(DOMAIN reg) -> DOMAIN reg] :
        \A i, j \in DOMAIN seq : seq[i] = seq[j] => i = j}

\* Enforcer.Enable. The result holds the return value, the registry, the
\* plugins' calls, and what became of the fetch ("none" when not attempted).
Enable(reg, calls, store, io, pluginID) ==
    IF ~EnableAllowed(reg, pluginID)
    THEN [ret |-> FALSE, reg |-> reg, calls |-> calls, fetch |-> "none"]
    ELSE LET bundle == Fetch(store, io)
             plugin == reg[pluginID].plugin
         IN  IF bundle = Nil
             THEN [ret |-> FALSE, reg |-> reg, calls |-> calls, fetch |-> "fail"]
             ELSE LET made == Invoke(plugin, EnableCalls(bundle, plugin))
                  IN  [ret   |-> EnableReturn(made),
                       reg   |-> [reg EXCEPT
                                    ![pluginID].enabled = EnabledAfterEnable],
                       calls |-> [calls EXCEPT ![plugin] = @ \o made],
                       fetch |-> "ok"]

\* Disable clearing the flag before it fetches the bundle.
DisableFlagFirst(reg, calls, store, io, pluginID) ==
    IF ~DisableAllowed(reg, pluginID)
    THEN [ret |-> FALSE, reg |-> reg, calls |-> calls, fetch |-> "none"]
    ELSE LET bundle == Fetch(store, io)
             plugin == reg[pluginID].plugin
             cleared == [reg EXCEPT ![pluginID].enabled = FALSE]
         IN  IF bundle = Nil
             THEN [ret |-> FALSE, reg |-> cleared, calls |-> calls, fetch |-> "fail"]
             ELSE LET made == Invoke(plugin, DisableCalls(bundle, plugin))
                  IN  [ret   |-> DisableReturn(made),
                       reg   |-> cleared,
                       calls |-> [calls EXCEPT ![plugin] = @ \o made],
                       fetch |-> "ok"]

\* Enforcer.Disable, with the same result shape as Enable.
Disable(reg, calls, store, io, pluginID) ==
    IF ~DisableAllowed(reg, pluginID)
    THEN [ret |-> FALSE, reg |-> reg, calls |-> calls, fetch |-> "none"]
    ELSE LET bundle == Fetch(store, io)
             plugin == reg[pluginID].plugin
         IN  IF bundle = Nil
             THEN [ret |-> FALSE, reg |-> reg, calls |-> calls, fetch |-> "fail"]
             ELSE LET made == Invoke(plugin, DisableCalls(bundle, plugin))
                  IN  [ret   |-> DisableReturn(made),
                       reg   |-> [reg EXCEPT
                                    ![pluginID].enabled = EnabledAfterDisable],
                       calls |-> [calls EXCEPT ![plugin] = @ \o made],
                       fetch |-> "ok"]

\* RegisterPlugin refusing only an id whose plugin is enabled.
AlreadyRegisteredAndEnabled(reg, id) == id \in DOMAIN reg /\ reg[id].enabled

\* The check RegisterPlugin makes: the id is already registered.
AlreadyRegistered(reg, id) == id \in DOMAIN reg

\* Enforcer.RegisterPlugin: refuses a registered id, else inserts the plugin
\* disabled, calls Enable and returns true.
RegisterPlugin(reg, calls, store, io, plugin) ==
    LET id == ID(plugin)
    IN  IF AlreadyRegistered(reg, id)
        THEN [ret |-> FALSE, reg |-> reg, calls |-> calls, fetch |-> "none"]
        ELSE LET inserted == Put(reg, id, [plugin |-> plugin, enabled |-> FALSE])
                 en == Enable(inserted, calls, store, io, id)
             IN  [ret |-> TRUE, reg |-> en.reg, calls |-> en.calls,
                  fetch |-> en.fetch]

\* UnregisterPlugin returning true whether the id was registered or not.
UnregisterPluginAlwaysTrue(reg, calls, store, io, plugin) ==
    LET id == ID(plugin)
        dis == Disable(reg, calls, store, io, id)
    IN  [ret |-> TRUE, reg |-> Delete(dis.reg, id),
         calls |-> dis.calls, fetch |-> dis.fetch]

\* UnregisterPlugin keeping the plugin when Disable failed.
UnregisterPluginIfDisabled(reg, calls, store, io, plugin) ==
    LET id == ID(plugin)
        dis == Disable(reg, calls, store, io, id)
    IN  [ret |-> id \in DOMAIN dis.reg,
         reg |-> IF dis.ret THEN Delete(dis.reg, id) ELSE dis.reg,
         calls |-> dis.calls, fetch |-> dis.fetch]

\* Enforcer.UnregisterPlugin: Disable by id, then delete the id whatever
\* Disable returned; returns whether the id was registered.
UnregisterPlugin(reg, calls, store, io, plugin) ==
    LET id == ID(plugin)
        dis == Disable(reg, calls, store, io, id)
    IN  [ret |-> id \in DOMAIN dis.reg, reg |-> Delete(dis.reg, id),
         calls |-> dis.calls, fetch |-> dis.fetch]

-----------------------------------------------------------------------------
(* The state machine. *)

NoArg == "-"

Call(op, id, plugin, bundle, ret, fetch, save) ==
    [op |-> op, id |-> id, plugin |-> plugin, bundle |-> bundle, ret |-> ret,
     fetch |-> fetch, save |-> save]

EmptyMap == [k \in {} |-> NoArg]

\* The goroutines that call the enforcer, and one that is in no call.
Threads == {"t1", "t2"}

Idle == [pc |-> "idle"]

\* NewEnforcer over an empty repository.
Init ==
    /\ Store = Nil
    /\ Handlers = EmptyMap
    /\ RegisteredPlugins = EmptyMap
    /\ handled = [h \in HandlerInstances |-> <<>>]
    /\ pluginCalls = [p \in PluginInstances |-> <<>>]
    /\ last = Call("NewEnforcer", NoArg, NoArg, Nil, TRUE, "none", "none")
    /\ threads = [t \in Threads |-> Idle]

CallApply ==
    \E bundle \in Bundles, io \in BOOLEAN :
        LET r == Apply(Store, Handlers, handled, bundle, io)
        IN  /\ Store' = r.store
            /\ handled' = r.handled
            /\ last' = Call("Apply", NoArg, NoArg, bundle, r.ret, "none",
                            IF io THEN "ok" ELSE "fail")
            /\ UNCHANGED <<threads, Handlers, RegisteredPlugins, pluginCalls>>

CallAnswer ==
    \E properties \in PropertyLists, credential \in Credentials,
       now \in Times, io \in GetOutcomes, verdict \in Verdicts :
        LET r == Answer(Store, io, properties, credential, now, verdict)
        IN  /\ last' = [op |-> "Answer", properties |-> properties,
                        credential |-> credential, now |-> now, io |-> io,
                        ret |-> r.ret, fetch |-> r.fetch,
                        resource |-> r.resource, matched |-> r.matched,
                        valid |-> r.valid, accept |-> r.accept, allow |-> r.allow]
            /\ UNCHANGED <<threads, Store, Handlers, RegisteredPlugins, handled,
                           pluginCalls>>

\* Fetch forgetting the stored bundle when it cannot read it.
CallFetchForgetting ==
    \E io \in GetOutcomes :
        /\ last' = [op |-> "Fetch", io |-> io, bundle |-> Fetch(Store, io)]
        /\ Store' = IF Fetch(Store, io) = Nil THEN Nil ELSE Store
        /\ UNCHANGED <<threads, Handlers, RegisteredPlugins, handled, pluginCalls>>

CallFetch ==
    \E io \in GetOutcomes :
        /\ last' = [op |-> "Fetch", io |-> io, bundle |-> Fetch(Store, io)]
        /\ UNCHANGED <<threads, Store, Handlers, RegisteredPlugins, handled, pluginCalls>>

CallSavePolicies ==
    \E bundle \in Bundles, decodes \in BOOLEAN, io \in BOOLEAN :
        LET r == SavePolicies(Store, bundle, decodes, io)
        IN  /\ Store' = r.store
            /\ last' = [op |-> "SavePolicies", bundle |-> bundle,
                        decodes |-> decodes, io |-> io, status |-> r.status]
            /\ UNCHANGED <<threads, Handlers, RegisteredPlugins, handled, pluginCalls>>

CallRegisterHandler ==
    \E id \in HandlerIDs, h \in HandlerInstances :
        LET r == RegisterHandler(Handlers, id, h)
        IN  /\ Handlers' = r.handlers
            /\ last' = Call("RegisterHandler", id, h, Nil, r.ret, "none", "none")
            /\ UNCHANGED <<threads, Store, RegisteredPlugins, handled, pluginCalls>>

\* UnregisterHandler emptying the plugins' map along with the handler's entry.
CallUnregisterHandlerAndPlugins ==
    \E id \in HandlerIDs :
        /\ Handlers' = UnregisterHandler(Handlers, id)
        /\ RegisteredPlugins' = EmptyMap
        /\ last' = Call("UnregisterHandler", id,
                        IF id \in DOMAIN Handlers THEN Handlers[id] ELSE NoArg,
                        Nil, TRUE, "none", "none")
        /\ UNCHANGED <<threads, Store, handled, pluginCalls>>

CallUnregisterHandler ==
    \E id \in HandlerIDs :
        /\ Handlers' = UnregisterHandler(Handlers, id)
        /\ last' = Call("UnregisterHandler", id,
                        IF id \in DOMAIN Handlers THEN Handlers[id] ELSE NoArg,
                        Nil, TRUE, "none", "none")
        /\ UNCHANGED <<threads, Store, RegisteredPlugins, handled, pluginCalls>>

CallEnable ==
    \E id \in PluginIDs, io \in GetOutcomes :
        LET r == Enable(RegisteredPlugins, pluginCalls, Store, io, id)
        IN  /\ RegisteredPlugins' = r.reg
            /\ pluginCalls' = r.calls
            /\ last' = [op |-> "Enable", id |-> id, plugin |-> NoArg, bundle |-> Nil,
                        ret |-> r.ret, fetch |-> r.fetch, save |-> "none",
                        io |-> IF r.fetch = "none" THEN "none" ELSE io]
            /\ UNCHANGED <<threads, Store, Handlers, handled>>

CallDisable ==
    \E id \in PluginIDs, io \in GetOutcomes :
        LET r == Disable(RegisteredPlugins, pluginCalls, Store, io, id)
        IN  /\ RegisteredPlugins' = r.reg
            /\ pluginCalls' = r.calls
            /\ last' = [op |-> "Disable", id |-> id, plugin |-> NoArg, bundle |-> Nil,
                        ret |-> r.ret, fetch |-> r.fetch, save |-> "none",
                        io |-> IF r.fetch = "none" THEN "none" ELSE io]
            /\ UNCHANGED <<threads, Store, Handlers, handled>>

CallPlugins ==
    \E ids \in Plugins(RegisteredPlugins) :
        /\ last' = [op |-> "Plugins", ids |-> ids]
        /\ UNCHANGED <<threads, Store, Handlers, RegisteredPlugins, handled, pluginCalls>>

CallRegisterPlugin ==
    \E plugin \in PluginInstances, io \in GetOutcomes :
        LET r == RegisterPlugin(RegisteredPlugins, pluginCalls, Store, io, plugin)
        IN  /\ RegisteredPlugins' = r.reg
            /\ pluginCalls' = r.calls
            /\ last' = Call("RegisterPlugin", ID(plugin), plugin, Nil, r.ret,
                            r.fetch, "none")
            /\ UNCHANGED <<threads, Store, Handlers, handled>>

CallUnregisterPlugin ==
    \E plugin \in PluginInstances, io \in GetOutcomes :
        LET r == UnregisterPlugin(RegisteredPlugins, pluginCalls, Store, io, plugin)
        IN  /\ RegisteredPlugins' = r.reg
            /\ pluginCalls' = r.calls
            /\ last' = Call("UnregisterPlugin", ID(plugin), plugin, Nil, r.ret,
                            r.fetch, "none")
            /\ UNCHANGED <<threads, Store, Handlers, handled>>

\* The bounds of a behaviour: no handler has received more than MaxHandled
\* calls, and the plugins no more than MaxCalls in total.
TotalLen(log, keys) ==
    Cardinality(UNION {{<<k, i>> : i \in 1..Len(log[k])} : k \in keys})

HandledBound == \A h \in HandlerInstances : Len(handled[h]) <= MaxHandled

CallsBound == TotalLen(pluginCalls, PluginInstances) <= MaxCalls

\* The controller and its event handlers: Apply and the handler registry.
NextHandlers ==
    \/ CallApply /\ HandledBound'
    \/ CallRegisterHandler
    \/ CallUnregisterHandler

SpecHandlers == Init /\ [][NextHandlers]_vars

\* The controller and the plugins: Apply and the plugin lifecycle.
NextPlugins ==
    \/ CallApply
    \/ CallEnable /\ CallsBound'
    \/ CallDisable /\ CallsBound'
    \/ CallRegisterPlugin /\ CallsBound'
    \/ CallUnregisterPlugin /\ CallsBound'

SpecPlugins == Init /\ [][NextPlugins]_vars

\* The controller and the requests: Apply and Answer.
NextAnswer ==
    \/ CallApply
    \/ CallAnswer

SpecAnswer == Init /\ [][NextAnswer]_vars

\* The HTTP surface beside the controller: POST /policies, Apply and the
\* registration of handlers.
NextHTTP ==
    \/ CallSavePolicies
    \/ CallApply /\ HandledBound'
    \/ CallRegisterHandler

SpecHTTP == Init /\ [][NextHTTP]_vars

EffectsBound ==
    TotalLen(handled, HandlerInstances) + TotalLen(pluginCalls, PluginInstances)
        <= MaxEffects

\* Handlers and plugins side by side: Apply, with handlers registered, and
\* plugins registered and unregistered; Fetch and Plugins.
NextRegistries ==
    \/ CallApply /\ EffectsBound'
    \/ CallFetch
    \/ CallPlugins
    \/ CallRegisterHandler
    \/ CallRegisterPlugin /\ EffectsBound'
    \/ CallUnregisterPlugin /\ EffectsBound'

SpecRegistries == Init /\ [][NextRegistries]_vars

\* The requests beside the plugin lifecycle: Answer, Enable and Disable over
\* the bundles applied and the plugins registered. A request is answered in
\* every configuration the other calls reach; one that follows another
\* request finds the configuration of the first.
NextRequests ==
    \/ CallApply /\ EffectsBound'
    \/ CallRegisterPlugin /\ EffectsBound'
    \/ CallEnable /\ EffectsBound'
    \/ CallDisable /\ EffectsBound'
    \/ last.op # "Answer" /\ CallAnswer

SpecRequests == Init /\ [][NextRequests]_vars

RegisteredBound ==
    Cardinality(DOMAIN Handlers) + Cardinality(DOMAIN RegisteredPlugins)
        <= MaxRegistered

\* Both registries through their whole lifecycle, over the bundles applied.
NextLifecycles ==
    \/ CallApply /\ EffectsBound'
    \/ CallRegisterHandler /\ RegisteredBound'
    \/ CallUnregisterHandler
    \/ CallRegisterPlugin /\ EffectsBound' /\ RegisteredBound'
    \/ CallUnregisterPlugin /\ EffectsBound'
    \/ CallEnable /\ EffectsBound'
    \/ CallDisable /\ EffectsBound'

SpecLifecycles == Init /\ [][NextLifecycles]_vars

\* The calls that only read.
ReadOnlyOps == {"Answer", "Fetch", "Plugins"}

\* The reading calls beside the registrations: Answer, Fetch and Plugins are
\* called in every configuration that Apply and the registrations reach; a
\* reading call that follows another finds the configuration of the first.
NextReads ==
    \/ CallApply /\ EffectsBound'
    \/ CallRegisterHandler /\ RegisteredBound'
    \/ CallRegisterPlugin /\ EffectsBound' /\ RegisteredBound'
    \/ last.op \notin ReadOnlyOps /\ CallAnswer
    \/ last.op \notin ReadOnlyOps /\ CallFetch
    \/ last.op \notin ReadOnlyOps /\ CallPlugins

SpecReads == Init /\ [][NextReads]_vars

-----------------------------------------------------------------------------
(* Calls in flight: the enforcer takes no lock, so calls made by different   *)
(* goroutines interleave statement by statement.                             *)

\* A goroutine that may start a call: it is in none, or its last has returned.
Free(t) == threads[t].pc \in {"idle", "done"}

\* A call that has returned.
Returned(op, id, plugin, ret) ==
    [pc |-> "done", op |-> op, id |-> id, plugin |-> plugin, ret |-> ret]

\* A plugin call at statement pc: arg is the plugin given to RegisterPlugin,
\* plugin the loadedPlugin Enable has looked up, todo the calls its loop has
\* still to make.
PluginFrame(pc, op, id, arg, plugin, todo) ==
    [pc |-> pc, op |-> op, id |-> id, arg |-> arg, plugin |-> plugin,
     todo |-> todo]

\* What the call returns when its Enable returns ret: Enable its own result,
\* RegisterPlugin true whatever Enable returned.
EnableDone(frame, ret) ==
    Returned(frame.op, frame.id, frame.arg,
             IF frame.op = "RegisterPlugin" THEN TRUE ELSE ret)

\* A goroutine of a process that the runtime has ended.
Fatal == [pc |-> "fatal"]

\* The runtime has ended the process: no goroutine takes another step.
Crashed == \E t \in Threads : threads[t].pc = "fatal"

\* The statements at which a call reads or writes the plugin registry.
PluginMapReads == {"check", "lookup"}

PluginMapWrites == {"insert"}

\* A goroutine calls Enable(id).
StartEnable ==
    \E t \in Threads, id \in PluginIDs :
        /\ Free(t)
        /\ threads' = [threads EXCEPT
                          ![t] = PluginFrame("lookup", "Enable", id, NoArg, NoArg, <<>>)]
        /\ UNCHANGED <<Store, Handlers, RegisteredPlugins, handled, pluginCalls,
                       last>>

\* A goroutine calls RegisterPlugin(plugin).
StartRegisterPlugin ==
    \E t \in Threads, plugin \in PluginInstances :
        /\ Free(t)
        /\ threads' = [threads EXCEPT
                          ![t] = PluginFrame("check", "RegisterPlugin", ID(plugin),
                                             plugin, NoArg, <<>>)]
        /\ UNCHANGED <<Store, Handlers, RegisteredPlugins, handled, pluginCalls,
                       last>>

\* RegisterPlugin tests whether the id is registered and returns false if so.
CheckRegistered ==
    \E t \in Threads :
        /\ threads[t].pc = "check"
        /\ threads' = [threads EXCEPT
              ![t] = IF AlreadyRegistered(RegisteredPlugins, threads[t].id)
                     THEN Returned("RegisterPlugin", threads[t].id,
                                   threads[t].arg, FALSE)
                     ELSE [threads[t] EXCEPT !.pc = "insert"]]
        /\ UNCHANGED <<Store, Handlers, RegisteredPlugins, handled, pluginCalls,
                       last>>

\* RegisterPlugin stores a new loadedPlugin, disabled, under the id, whatever
\* is there by now, and calls Enable.
InsertPlugin ==
    \E t \in Threads :
        /\ threads[t].pc = "insert"
        /\ RegisteredPlugins' =
              Put(RegisteredPlugins, threads[t].id,
                  [plugin |-> threads[t].arg, enabled |-> FALSE])
        /\ threads' = [threads EXCEPT ![t].pc = "lookup"]
        /\ UNCHANGED <<Store, Handlers, handled, pluginCalls, last>>

\* Enable looks the id up and tests the flag of the loadedPlugin found.
LookupPlugin ==
    \E t \in Threads :
        /\ threads[t].pc = "lookup"
        /\ threads' = [threads EXCEPT
              ![t] = IF ~EnableAllowed(RegisteredPlugins, threads[t].id)
                     THEN EnableDone(threads[t], FALSE)
                     ELSE [threads[t] EXCEPT
                              !.pc = "fetch",
                              !.plugin = RegisteredPlugins[threads[t].id].plugin]]
        /\ UNCHANGED <<Store, Handlers, RegisteredPlugins, handled, pluginCalls,
                       last>>

\* Enable fetches the bundle and returns false when there is none; its loop
\* is to make the calls for the bundle fetched.
FetchBundle ==
    \E t \in Threads, io \in GetOutcomes :
        /\ threads[t].pc = "fetch"
        /\ LET bundle == Fetch(Store, io)
           IN  threads' = [threads EXCEPT
                  ![t] = IF bundle = Nil THEN EnableDone(threads[t], FALSE)
                         ELSE [threads[t] EXCEPT
                                  !.pc = "apply",
                                  !.todo = EnableCalls(bundle, threads[t].plugin)]]
        /\ UNCHANGED <<Store, Handlers, RegisteredPlugins, handled, pluginCalls,
                       last>>

\* The loop of Enable makes its next plugin.Apply call.
ApplyNext ==
    \E t \in Threads :
        /\ threads[t].pc = "apply"
        /\ threads[t].todo # <<>>
        /\ pluginCalls' =
              [pluginCalls EXCEPT
                  ![threads[t].plugin] =
                      @ \o Invoke(threads[t].plugin, <<Head(threads[t].todo)>>)]
        /\ threads' = [threads EXCEPT ![t].todo = Tail(@)]
        /\ UNCHANGED <<Store, Handlers, RegisteredPlugins, handled, last>>

\* The loop over, Enable sets the flag of the loadedPlugin it looked up, which
\* is in the registry unless the id was stored anew since, and returns true.
SetEnabled ==
    \E t \in Threads :
        LET id == threads[t].id
        IN  /\ threads[t].pc = "apply"
            /\ threads[t].todo = <<>>
            /\ RegisteredPlugins' =
                  IF /\ id \in DOMAIN RegisteredPlugins
                     /\ RegisteredPlugins[id].plugin = threads[t].plugin
                  THEN [RegisteredPlugins EXCEPT ![id].enabled = EnabledAfterEnable]
                  ELSE RegisteredPlugins
            /\ threads' = [threads EXCEPT ![t] = EnableDone(threads[t], TRUE)]
            /\ UNCHANGED <<Store, Handlers, handled, pluginCalls, last>>

\* A write of the plugin registry coinciding with another goroutine's access
\* of it is a data race on a Go map: the runtime may detect it and end the
\* process ("fatal error: concurrent map writes", "concurrent map read and map
\* write"). Undetected, the accesses take effect one after the other.
RacyPluginMapAccess ==
    \E t \in Threads :
      \E u \in Threads \ {t} :
        /\ threads[t].pc \in PluginMapWrites
        /\ threads[u].pc \in PluginMapReads \cup PluginMapWrites
        /\ threads' = [x \in Threads |-> Fatal]
        /\ UNCHANGED <<Store, Handlers, RegisteredPlugins, handled, pluginCalls,
                       last>>

RacingCallsBound == TotalLen(pluginCalls, PluginInstances) <= MaxRacingCalls

\* Two goroutines registering and enabling plugins side by side, and the
\* controller's Apply, which saves between two of their statements.
NextRacingPlugins ==
    \/ CallApply /\ ~Crashed
    \/ StartEnable
    \/ StartRegisterPlugin
    \/ CheckRegistered
    \/ InsertPlugin
    \/ LookupPlugin
    \/ FetchBundle
    \/ ApplyNext /\ RacingCallsBound'
    \/ SetEnabled
    \/ RacyPluginMapAccess

SpecRacingPlugins == Init /\ [][NextRacingPlugins]_vars

-----------------------------------------------------------------------------
(* Apply in flight, while other goroutines change the handler registry. *)

\* An Apply call at statement pc: the bundle given, what Save came to (save,
\* and ret, the value to return), the event to report, and the range over the
\* handlers: todo holds the ids it has still to produce, seen those it has
\* produced, in order; stayed holds the ids registered ever since the call
\* began.
ApplyFrame(pc, bundle, save, ret, ev, todo, seen, stayed) ==
    [pc |-> pc, op |-> "Apply", bundle |-> bundle, save |-> save, ret |-> ret,
     event |-> ev.event, details |-> ev.details, todo |-> todo, seen |-> seen,
     stayed |-> stayed]

\* An Apply call is between its Save and its return.
Notifying(t) == threads[t].pc = "notify"

\* The goroutine on which the controller calls Apply, one call at a time.
Controller == "t1"

\* The controller calls Apply(bundle): the bundle is saved, the event chosen,
\* and notify starts to range over the handlers.
SaveBundle ==
    \E bundle \in Bundles, io \in BOOLEAN :
        LET saved == Save(Store, bundle, io)
            t == Controller
        IN  /\ Free(t)
            /\ Store' = saved[1]
            /\ threads' = [threads EXCEPT
                  ![t] = ApplyFrame("notify", bundle, IF io THEN "ok" ELSE "fail",
                                    ApplyReturn(saved[2]), ApplyEvent(saved[2]),
                                    DOMAIN Handlers, <<>>, DOMAIN Handlers)]
            /\ UNCHANGED <<Handlers, RegisteredPlugins, handled, pluginCalls, last>>

\* The range of notify produces its next entry, and its handler is called.
NotifyNext ==
    \E t \in Threads :
        /\ Notifying(t)
        /\ \E id \in threads[t].todo :
              /\ handled' =
                    [handled EXCEPT
                        ![Handlers[id]] =
                            Append(@, HandleCall(threads[t].event,
                                                 threads[t].details,
                                                 threads[t].bundle))]
              /\ threads' = [threads EXCEPT ![t].todo = @ \ {id},
                                            ![t].seen = Append(@, id)]
        /\ UNCHANGED <<Store, Handlers, RegisteredPlugins, pluginCalls, last>>

\* The range is over: notify returns, and Apply returns whether Save succeeded.
ReturnApply ==
    \E t \in Threads :
        /\ Notifying(t)
        /\ threads[t].todo = {}
        /\ threads' = [threads EXCEPT ![t] = Idle]
        /\ last' = Call("Apply", NoArg, NoArg, threads[t].bundle, threads[t].ret,
                        "none", threads[t].save)
        /\ UNCHANGED <<Store, Handlers, RegisteredPlugins, handled, pluginCalls>>

\* What a write of the handler registry does to a range in progress: an entry
\* removed before it was reached is not produced; an entry created may be
\* produced (produce) or skipped.
RangeAfterWrite(frame, handlers, id, produce) ==
    IF frame.pc # "notify" THEN frame
    ELSE [frame EXCEPT
            !.todo = IF id \notin DOMAIN handlers THEN @ \ {id}
                     ELSE IF produce THEN @ \cup {id} ELSE @,
            !.stayed = IF id \notin DOMAIN handlers THEN @ \ {id} ELSE @]

\* Another goroutine registers a handler.
RegisterHandlerAside ==
    \E id \in HandlerIDs, h \in HandlerInstances,
       produce \in IF \E t \in Threads : Notifying(t) THEN BOOLEAN ELSE {FALSE} :
        LET r == RegisterHandler(Handlers, id, h)
        IN  /\ ~Crashed
            /\ Handlers' = r.handlers
            /\ threads' =
                  [t \in Threads |->
                      IF r.ret THEN RangeAfterWrite(threads[t], r.handlers, id, produce)
                      ELSE threads[t]]
            /\ UNCHANGED <<Store, RegisteredPlugins, handled, pluginCalls, last>>

\* Another goroutine unregisters a handler.
UnregisterHandlerAside ==
    \E id \in HandlerIDs :
        LET handlers == UnregisterHandler(Handlers, id)
        IN  /\ ~Crashed
            /\ Handlers' = handlers
            /\ threads' =
                  [t \in Threads |-> RangeAfterWrite(threads[t], handlers, id, FALSE)]
            /\ UNCHANGED <<Store, RegisteredPlugins, handled, pluginCalls, last>>

\* A write of the handler registry coinciding with a step of the range of
\* notify is a data race on a Go map: the runtime may detect it and end the
\* process ("fatal error: concurrent map iteration and map write").
RacyHandlerMapAccess ==
    /\ \E t \in Threads : Notifying(t)
    /\ threads' = [x \in Threads |-> Fatal]
    /\ UNCHANGED <<Store, Handlers, RegisteredPlugins, handled, pluginCalls, last>>

NotifiedBound == TotalLen(handled, HandlerInstances) <= MaxNotified

\* The controller's Apply, statement by statement, and the goroutines that
\* register and unregister handlers meanwhile.
NextNotify ==
    \/ SaveBundle
    \/ NotifyNext /\ NotifiedBound'
    \/ ReturnApply
    \/ RegisterHandlerAside
    \/ UnregisterHandlerAside
    \/ RacyHandlerMapAccess

SpecNotify == Init /\ [][NextNotify]_vars

-----------------------------------------------------------------------------
(* Claims about Apply and the handlers. *)

\* The ids handler instance h is registered under.
RegisteredAs(h) == {id \in DOMAIN Handlers : Handlers[id] = h}

\* C1: every Apply call, whether Save succeeds or fails, makes exactly one
\* Handle call per registered handler (one per registry entry), appended to
\* what the handler received before and describing this Apply; no other call
\* reaches a handler. Hence over N Apply calls with the same handlers each
\* handler receives N events, in the order of the Apply calls.
C1_ApplyNotifiesEachHandlerOnce ==
    [][IF last'.op = "Apply"
       THEN \A h \in HandlerInstances :
              LET before == Len(handled[h])
                  after == Len(handled'[h])
              IN  /\ after = before + Cardinality(RegisteredAs(h))
                  /\ SubSeq(handled'[h], 1, before) = handled[h]
                  /\ \A i \in before + 1 .. after :
                        /\ handled'[h][i].policyVersion = last'.bundle.PolicyVersion
                        /\ handled'[h][i].policyDescription = last'.bundle.Description
       ELSE handled' = handled]_vars

\* Two handlers, registered throughout, have each received the same two
\* events, a failed apply of one bundle and then an apply of another.
C1_Witness ==
    /\ last.op = "Apply"
    /\ DOMAIN Handlers = HandlerIDs
    /\ Handlers["h"] # Handlers["g"]
    /\ \A h \in HandlerInstances :
          /\ Len(handled[h]) = 2
          /\ handled[h][1].event = "PolicyApplyError"
          /\ handled[h][2].event = "PolicyApply"
          /\ handled[h][1].policyVersion # handled[h][2].policyVersion

\* C2: Apply returns true iff Save succeeded; the handlers are told
\* PolicyApply on success and PolicyApplyError, with the Save error text as
\* details, on failure; the event carries the version and description of the
\* bundle passed to Apply.
C2_ApplyResultAndEvent ==
    last.op = "Apply" =>
        /\ last.ret = (last.save = "ok")
        /\ last.ret => Store = last.bundle
        /\ \A id \in DOMAIN Handlers :
              LET got == handled[Handlers[id]]
                  e == got[Len(got)]
              IN  /\ got # <<>>
                  /\ e.event = IF last.save = "ok" THEN "PolicyApply"
                                                   ELSE "PolicyApplyError"
                  /\ last.save = "fail" => e.details = SaveError
                  /\ e.policyVersion = last.bundle.PolicyVersion
                  /\ e.policyDescription = last.bundle.Description

\* A failed Apply of a bundle other than the stored one, told to a handler.
C2_Witness ==
    /\ last.op = "Apply"
    /\ last.save = "fail"
    /\ ~last.ret
    /\ Store # Nil
    /\ Store.PolicyVersion # last.bundle.PolicyVersion
    /\ "h" \in DOMAIN Handlers
    /\ handled[Handlers["h"]][Len(handled[Handlers["h"]])].event = "PolicyApplyError"

-----------------------------------------------------------------------------
(* Claims about the plugins. *)

\* The content entries of bundle b addressed to plugin id: <<i, j>> for entry
\* j of policy i.
Addressed(b, id) ==
    {ij \in (1..Len(b.Policies)) \X (1..3) :
        /\ ij[2] <= Len(b.Policies[ij[1]].CContents)
        /\ b.Policies[ij[1]].CContents[ij[2]].PluginID = id}

\* The place of entry ij among them, in bundle order.
Rank(b, id, ij) ==
    1 + Cardinality({q \in Addressed(b, id) :
                        q[1] < ij[1] \/ (q[1] = ij[1] /\ q[2] < ij[2])})

\* The policies of bundle b scoped to plugin id.
Scoped(b, id) == {i \in 1..Len(b.Policies) : \E ij \in Addressed(b, id) : ij[1] = i}

\* The calls plugin instance p receives in a step, given that the step keeps
\* what p received before.
NewCalls(p) == SubSeq(pluginCalls'[p], Len(pluginCalls[p]) + 1, Len(pluginCalls'[p]))

KeepsCalls(p) ==
    /\ Len(pluginCalls'[p]) >= Len(pluginCalls[p])
    /\ SubSeq(pluginCalls'[p], 1, Len(pluginCalls[p])) = pluginCalls[p]

\* The calls in log without the plugin's answers.
Args(log) ==
    [i \in 1..Len(log) |->
        [call |-> log[i].call, id |-> log[i].id, data |-> log[i].data]]

\* The policies a plugin holds after the calls in log: those it applied and
\* has not removed since.
Held(log) ==
    {log[i].id : i \in {k \in 1..Len(log) :
        /\ log[k].call = "Apply"
        /\ log[k].ok
        /\ \A j \in k + 1 .. Len(log) :
              ~(log[j].call = "Remove" /\ log[j].id = log[k].id /\ log[j].ok)}}

\* C3: after a successful Apply every enabled plugin holds exactly the
\* policies of the new bundle that carry content addressed to it.
C3_ApplyUpdatesPlugins ==
    (last.op = "Apply" /\ last.ret) =>
        \A id \in DOMAIN RegisteredPlugins :
            RegisteredPlugins[id].enabled =>
                Held(pluginCalls[RegisteredPlugins[id].plugin])
                    = {Store.Policies[i].UUID : i \in Scoped(Store, id)}

\* C4: whenever RegisterPlugin returns true the plugin is in the registry
\* with enabled = true.
C4_RegisteredMeansEnabled ==
    (last.op = "RegisterPlugin" /\ last.ret) =>
        /\ last.id \in DOMAIN RegisteredPlugins
        /\ RegisteredPlugins[last.id].plugin = last.plugin
        /\ RegisteredPlugins[last.id].enabled

\* C5: RegisterPlugin with an id that is already in the registry returns
\* false and changes nothing: the registry keeps the first instance and its
\* enabled flag, and no plugin receives a call.
C5_DuplicateRegistrationRefused ==
    [][(last'.op = "RegisterPlugin" /\ last'.id \in DOMAIN RegisteredPlugins) =>
          /\ ~last'.ret
          /\ RegisteredPlugins' = RegisteredPlugins
          /\ pluginCalls' = pluginCalls]_vars

\* The second instance of "fw" was refused; the first, which holds policies,
\* is still the registered one.
C5_Witness ==
    /\ last.op = "RegisterPlugin"
    /\ ~last.ret
    /\ last.plugin = "fw2"
    /\ "fw" \in DOMAIN RegisteredPlugins
    /\ RegisteredPlugins["fw"].plugin = "fw1"
    /\ pluginCalls["fw1"] # <<>>
    /\ pluginCalls["fw2"] = <<>>

\* C6: a successful Enable(id) acts on a registered, disabled plugin; it calls
\* plugin.Apply(policy.UUID, content.Blob) once for each content entry of the
\* stored bundle whose PluginID is the plugin's, in bundle order, and makes no
\* other call; afterwards only that plugin's flag has changed, to true.
C6_EnableAppliesMatchingContents ==
    [][(last'.op = "Enable" /\ last'.ret) =>
          /\ last'.id \in DOMAIN RegisteredPlugins
          /\ ~RegisteredPlugins[last'.id].enabled
          /\ Store # Nil
          /\ RegisteredPlugins' =
                [RegisteredPlugins EXCEPT ![last'.id].enabled = TRUE]
          /\ LET p == RegisteredPlugins[last'.id].plugin
                  want == Addressed(Store, last'.id)
              IN  /\ KeepsCalls(p)
                  /\ Len(NewCalls(p)) = Cardinality(want)
                  /\ \A ij \in want :
                        Args(NewCalls(p))[Rank(Store, last'.id, ij)] =
                            [call |-> "Apply",
                             id   |-> Store.Policies[ij[1]].UUID,
                             data |-> Store.Policies[ij[1]].CContents[ij[2]].Blob]
                  /\ \A q \in PluginInstances \ {p} :
                        pluginCalls'[q] = pluginCalls[q]]_vars

\* Enable pushed the three entries for "fw" of a bundle that also carries an
\* entry for "px", the later policy's entry last.
C6_Witness ==
    /\ last.op = "Enable"
    /\ last.ret
    /\ last.id = "fw"
    /\ RegisteredPlugins["fw"].enabled
    /\ Args(pluginCalls[RegisteredPlugins["fw"].plugin]) =
          <<ApplyCall("u3", "b3"), ApplyCall("u3", "b4"), ApplyCall("u1", "b1")>>

\* The lifecycle steps of claim C7: a RegisterPlugin that fetched the bundle,
\* a Disable or an Enable that returned true; the plugin instance concerned.
LifecycleStep ==
    \/ last'.op = "RegisterPlugin" /\ last'.ret /\ last'.fetch = "ok"
    \/ last'.op \in {"Enable", "Disable"} /\ last'.ret

LifecyclePlugin ==
    IF last'.op = "RegisterPlugin" THEN last'.plugin
    ELSE RegisteredPlugins[last'.id].plugin

LifecycleCall == IF last'.op = "Disable" THEN "Remove" ELSE "Apply"

C8_EnableRefused ==
    [][(/\ last'.op = "Enable"
        /\ \/ last'.id \notin DOMAIN RegisteredPlugins
           \/ RegisteredPlugins[last'.id].enabled) =>
          /\ ~last'.ret
          /\ pluginCalls' = pluginCalls
          /\ RegisteredPlugins' = RegisteredPlugins]_vars

\* Enable was refused on an enabled plugin that holds a policy, with a bundle
\* in the repository.
C8_Witness ==
    /\ last.op = "Enable"
    /\ ~last.ret
    /\ last.fetch = "none"
    /\ Store # Nil
    /\ last.id \in DOMAIN RegisteredPlugins
    /\ RegisteredPlugins[last.id].enabled
    /\ Held(pluginCalls[RegisteredPlugins[last.id].plugin]) # {}

\* C9: Disable returns false when the id is not registered or the plugin is
\* already disabled, makes no plugin call and changes no registry entry.
C9_DisableRefused ==
    [][(/\ last'.op = "Disable"
        /\ \/ last'.id \notin DOMAIN RegisteredPlugins
           \/ ~RegisteredPlugins[last'.id].enabled) =>
          /\ ~last'.ret
          /\ pluginCalls' = pluginCalls
          /\ RegisteredPlugins' = RegisteredPlugins]_vars

\* Disable was refused on a disabled plugin that still holds a policy, with a
\* bundle in the repository.
C9_Witness ==
    /\ last.op = "Disable"
    /\ ~last.ret
    /\ last.fetch = "none"
    /\ Store # Nil
    /\ last.id \in DOMAIN RegisteredPlugins
    /\ ~RegisteredPlugins[last.id].enabled
    /\ Held(pluginCalls[RegisteredPlugins[last.id].plugin]) # {}

\* C10: when the repository Get fails, Enable on a registered disabled plugin
\* and Disable on a registered enabled plugin return false, make no plugin
\* call and leave the registry, so the plugin's flag, as it was.
C10_FetchFailureChangesNothing ==
    [][(/\ last'.op \in {"Enable", "Disable"}
        /\ last'.id \in DOMAIN RegisteredPlugins
        /\ RegisteredPlugins[last'.id].enabled = (last'.op = "Disable")
        /\ Store = Nil \/ last'.fetch = "fail") =>
          /\ ~last'.ret
          /\ last'.fetch = "fail"
          /\ pluginCalls' = pluginCalls
          /\ RegisteredPlugins' = RegisteredPlugins]_vars

\* Disable failed for want of the bundle on an enabled plugin that holds
\* policies of the stored bundle, and the plugin is still enabled.
C10_Witness ==
    /\ last.op = "Disable"
    /\ ~last.ret
    /\ last.fetch = "fail"
    /\ Store # Nil
    /\ RegisteredPlugins[last.id].enabled
    /\ Held(pluginCalls[RegisteredPlugins[last.id].plugin]) # {}

\* C11: a successful Disable(id) acts on a registered, enabled plugin; it
\* calls plugin.Remove(policy.UUID) for each policy of the stored bundle that
\* carries content addressed to the plugin, in bundle order, makes no Remove
\* call for any other policy and no call on any other plugin; afterwards only
\* that plugin's flag has changed, to false.
C11_DisableRemovesScopedPolicies ==
    [][(last'.op = "Disable" /\ last'.ret) =>
          /\ last'.id \in DOMAIN RegisteredPlugins
          /\ RegisteredPlugins[last'.id].enabled
          /\ Store # Nil
          /\ RegisteredPlugins' =
                [RegisteredPlugins EXCEPT ![last'.id].enabled = FALSE]
          /\ LET p == RegisteredPlugins[last'.id].plugin
                  new == NewCalls(p)
                  uuid(i) == Store.Policies[i].UUID
              IN  /\ KeepsCalls(p)
                  /\ \A k \in 1..Len(new) :
                        /\ new[k].call = "Remove"
                        /\ \E i \in Scoped(Store, last'.id) : new[k].id = uuid(i)
                  /\ \A i \in Scoped(Store, last'.id) :
                        \E k \in 1..Len(new) : new[k].id = uuid(i)
                  /\ \A k1, k2 \in 1..Len(new) :
                        k1 < k2 =>
                            \E i1, i2 \in Scoped(Store, last'.id) :
                                /\ i1 <= i2
                                /\ new[k1].id = uuid(i1)
                                /\ new[k2].id = uuid(i2)
                  /\ \A q \in PluginInstances \ {p} :
                        pluginCalls'[q] = pluginCalls[q]]_vars

\* Disable withdrew from "px" the one policy of its bundle that carries
\* content for it; the bundle's other policy carries content for "fw" only.
C11_Witness ==
    /\ last.op = "Disable"
    /\ last.ret
    /\ last.id = "px"
    /\ ~RegisteredPlugins["px"].enabled
    /\ Store # Nil
    /\ Len(Store.Policies) = 2
    /\ Scoped(Store, "px") = {1}
    /\ Len(pluginCalls["px1"]) = 2
    /\ pluginCalls["px1"][1].call = "Apply"
    /\ pluginCalls["px1"][2].call = "Remove"
    /\ pluginCalls["px1"][2].id = "u3"

\* C12: when the id is registered, the flag permits the operation and the
\* bundle is fetched, Enable returns true and sets the flag (Disable returns
\* true and clears it) whatever the plugin answered, and a call the plugin
\* refused does not stop the loop: one call is made for every content entry
\* addressed to the plugin.
C12_PluginResultsIgnored ==
    [][(/\ last'.op \in {"Enable", "Disable"}
        /\ last'.id \in DOMAIN RegisteredPlugins
        /\ RegisteredPlugins[last'.id].enabled = (last'.op = "Disable")
        /\ last'.fetch = "ok") =>
          /\ last'.ret
          /\ last'.id \in DOMAIN RegisteredPlugins'
          /\ RegisteredPlugins'[last'.id].enabled = (last'.op = "Enable")
          /\ LET p == RegisteredPlugins[last'.id].plugin
              IN  /\ KeepsCalls(p)
                  /\ Len(NewCalls(p)) = Cardinality(Addressed(Store, last'.id))
                  /\ \A k \in 1..Len(NewCalls(p)) :
                        NewCalls(p)[k].call = LifecycleCall]_vars

\* Enable returned true and set the flag although the plugin refused the
\* first two of its three Apply calls; the third was still made, and accepted.
C12_Witness ==
    /\ last.op = "Enable"
    /\ last.ret
    /\ last.id = "fw"
    /\ RegisteredPlugins["fw"].plugin = "fw2"
    /\ RegisteredPlugins["fw"].enabled
    /\ Len(pluginCalls["fw2"]) = 3
    /\ \A k \in 1..3 : pluginCalls["fw2"][k].call = "Apply"
    /\ ~pluginCalls["fw2"][1].ok
    /\ ~pluginCalls["fw2"][2].ok
    /\ pluginCalls["fw2"][3].ok

\* C13: UnregisterPlugin(p) attempts Disable(p.ID()) first: the registered
\* plugin, if enabled, is asked for the bundle's removals when the bundle can
\* be fetched, and otherwise no plugin is called. Then the id is removed from
\* the registry whether or not Disable succeeded, no other entry changing; the
\* call returns true iff the id was in the registry before. The id is out of
\* the registry when the call returns and only RegisterPlugin brings an id in.
C13_UnregisterRemovesWhateverDisableDid ==
    [][/\ last'.op = "UnregisterPlugin" =>
            LET id == last'.id
                was == id \in DOMAIN RegisteredPlugins
                enabled == was /\ RegisteredPlugins[id].enabled
            IN  /\ id = ID(last'.plugin)
                /\ last'.ret = was
                /\ RegisteredPlugins' = Delete(RegisteredPlugins, id)
                /\ id \notin DOMAIN RegisteredPlugins'
                /\ (last'.fetch # "none") = enabled
                /\ IF enabled /\ last'.fetch = "ok"
                   THEN LET p == RegisteredPlugins[id].plugin
                        IN  /\ KeepsCalls(p)
                            /\ Len(NewCalls(p)) = Cardinality(Addressed(Store, id))
                            /\ \A k \in 1..Len(NewCalls(p)) :
                                  NewCalls(p)[k].call = "Remove"
                            /\ \A q \in PluginInstances \ {p} :
                                  pluginCalls'[q] = pluginCalls[q]
                   ELSE pluginCalls' = pluginCalls
       /\ \A id \in PluginIDs :
            (id \notin DOMAIN RegisteredPlugins /\ id \in DOMAIN RegisteredPlugins')
                => last'.op = "RegisterPlugin" /\ last'.id = id]_vars

\* UnregisterPlugin returned true for an enabled plugin whose Disable failed
\* for want of the bundle: the id is gone from the registry and the plugin was
\* asked for no removal.
C13_Witness ==
    /\ last.op = "UnregisterPlugin"
    /\ last.ret
    /\ last.fetch = "fail"
    /\ last.id = "fw"
    /\ "fw" \notin DOMAIN RegisteredPlugins
    /\ "px" \in DOMAIN RegisteredPlugins
    /\ Len(pluginCalls[last.plugin]) = 1
    /\ pluginCalls[last.plugin][1].call = "Apply"

\* C14: after UnregisterPlugin returns true for a plugin that was enabled,
\* the plugin holds no policies: every policy applied to it has since been
\* removed from it.
C14_UnregisteredPluginHoldsNothing ==
    [][(/\ last'.op = "UnregisterPlugin"
        /\ last'.ret
        /\ last'.id \in DOMAIN RegisteredPlugins
        /\ RegisteredPlugins[last'.id].enabled) =>
          Held(pluginCalls'[RegisteredPlugins[last'.id].plugin]) = {}]_vars

\* C15: UnregisterPlugin on a plugin whose id is not in the registry (never
\* registered, or unregistered since) returns false, calls no plugin, and
\* leaves the plugin registry, the handler registry, the handlers and the
\* stored bundle as they were.
C15_UnregisterUnknownChangesNothing ==
    [][(/\ last'.op = "UnregisterPlugin"
        /\ last'.id \notin DOMAIN RegisteredPlugins) =>
          /\ ~last'.ret
          /\ pluginCalls' = pluginCalls
          /\ RegisteredPlugins' = RegisteredPlugins
          /\ Handlers' = Handlers
          /\ handled' = handled
          /\ Store' = Store]_vars

\* UnregisterPlugin returned false for "px", never registered, while a
\* handler is registered, a bundle is stored and "fw" holds a policy.
C15_Witness ==
    /\ last.op = "UnregisterPlugin"
    /\ ~last.ret
    /\ last.id = "px"
    /\ \A plugin \in PluginInstances : ID(plugin) = "px" => pluginCalls[plugin] = <<>>
    /\ Handlers # EmptyMap
    /\ Store # Nil
    /\ "fw" \in DOMAIN RegisteredPlugins
    /\ RegisteredPlugins["fw"].enabled
    /\ Held(pluginCalls[RegisteredPlugins["fw"].plugin]) # {}

\* The lifecycle state of plugin id in registry reg.
Status(reg, id) ==
    IF id \notin DOMAIN reg THEN "Unregistered"
    ELSE IF reg[id].enabled THEN "Enabled" ELSE "Disabled"

\* The transitions of the lifecycle: Unregistered -> Disabled -> Enabled <->
\* Disabled -> Unregistered.
LifecycleEdges ==
    { <<"Unregistered", "Disabled">>, <<"Disabled", "Enabled">>,
      <<"Enabled", "Disabled">>, <<"Disabled", "Unregistered">> }

C17_AppliedContentIsAddressed ==
    [][\A p \in PluginInstances :
          /\ KeepsCalls(p)
          /\ \A k \in 1..Len(NewCalls(p)) :
                NewCalls(p)[k].call = "Apply" =>
                    /\ Store # Nil
                    /\ \E ij \in Addressed(Store, ID(p)) :
                          /\ Store.Policies[ij[1]].UUID = NewCalls(p)[k].id
                          /\ Store.Policies[ij[1]].CContents[ij[2]].Blob =
                                NewCalls(p)[k].data]_vars

\* Both plugins were registered under a bundle whose first policy carries
\* content for each of them: "px" received its one entry, "fw" its three.
C17_Witness ==
    /\ last.op = "RegisterPlugin"
    /\ last.id = "px"
    /\ Store # Nil
    /\ Args(pluginCalls["px1"]) = <<ApplyCall("u3", "b2")>>
    /\ Args(pluginCalls["fw1"]) =
          <<ApplyCall("u3", "b3"), ApplyCall("u3", "b4"), ApplyCall("u1", "b1")>>

\* C18: Enable and RegisterPlugin push no policy that is outside its validity
\* window at the time of the call, whatever that time is: every policy they
\* apply to a plugin is active then.
C18_OnlyActivePoliciesPushed ==
    [][last'.op \in {"Enable", "RegisterPlugin"} =>
          \A now \in Times, p \in PluginInstances :
              \A k \in 1..Len(NewCalls(p)) :
                  NewCalls(p)[k].call = "Apply" =>
                      \A i \in 1..Len(Store.Policies) :
                          Store.Policies[i].UUID = NewCalls(p)[k].id =>
                              ActiveAt(Store.Policies[i].Duration, now)]_vars

-----------------------------------------------------------------------------
(* Claims about Answer. *)

\* C19: Answer called with an empty property list returns false and calls no
\* Match, whatever bundle is stored and whether or not the repository fails.
C19_EmptyRequestDenied ==
    (last.op = "Answer" /\ last.properties = <<>>) =>
        /\ ~last.ret
        /\ ~last.matched

\* A request without properties was denied, unmatched, although the bundle
\* was fetched and holds a policy active at the time of the request.
C19_Witness ==
    /\ last.op = "Answer"
    /\ last.properties = <<>>
    /\ ~last.ret
    /\ last.io = "ok"
    /\ last.fetch = "ok"
    /\ Store # Nil
    /\ \E i \in 1..Len(Store.Policies) :
          ActiveAt(Store.Policies[i].Duration, last.now)

\* C20: Answer returns false, for every property list and credential,
\* whenever the bundle cannot be fetched: the repository holds none or its
\* Get fails.
C20_NoBundleDenied ==
    (last.op = "Answer" /\ (Store = Nil \/ last.io # "ok")) =>
        /\ ~last.ret
        /\ last.fetch = "fail"

\* A request that the stored bundle's policy matches, with a verdict that
\* would allow it, was denied because the repository's Get failed.
C20_Witness ==
    /\ last.op = "Answer"
    /\ last.io = "error"
    /\ ~last.ret
    /\ Store # Nil
    /\ last.properties = <<R1, R2>>
    /\ \E i \in 1..Len(Store.Policies) :
          /\ ActiveAt(Store.Policies[i].Duration, last.now)
          /\ Matches(Store.Policies[i].RuleSet, {R1, R2})

\* C21: for a non-empty property list and an available bundle Answer calls
\* Match and returns valid && (!accept || allow) of its result. In particular
\* when no policy of the bundle is active and matches the properties, valid is
\* false and Answer returns false whatever accept and allow are.
C21_AnswerComposesMatch ==
    (last.op = "Answer" /\ last.properties # <<>> /\ Store # Nil
        /\ last.io = "ok") =>
        LET props == {last.properties[k] : k \in 1..Len(last.properties)}
            applies == \E i \in 1..Len(Store.Policies) :
                          /\ ActiveAt(Store.Policies[i].Duration, last.now)
                          /\ Matches(Store.Policies[i].RuleSet, props)
        IN  /\ last.matched
            /\ last.valid = applies
            /\ last.ret = (last.valid /\ (~last.accept \/ last.allow))
            /\ ~applies => ~last.ret

\* A request that no policy of the fetched bundle matches was answered false
\* although the verdict neither accepts nor denies.
C21_Witness ==
    /\ last.op = "Answer"
    /\ last.properties = <<R2>>
    /\ Store # Nil
    /\ last.matched
    /\ ~last.valid
    /\ ~last.accept
    /\ ~last.ret

\* C22: the resource Answer assembles carries the credential, and its RuleSet
\* is the AND of the properties: a single NONE leaf for one property, and for
\* any properties a RuleSet that a set of rules satisfies iff it satisfies
\* each property on its own, so in whatever order the properties are given.
C22_AssembleIsAndOfProperties ==
    (last.op = "Answer" /\ last.matched) =>
        /\ last.resource.IdentifiedBy = last.credential
        /\ Len(last.properties) = 1 =>
              last.resource.Name = Leaf(last.properties[1])
        /\ \A S \in SUBSET {R1, R2} :
              Matches(last.resource.Name, S) =
                  \A k \in 1..Len(last.properties) : last.properties[k] \in S

\* A request with two properties, the port rule second, was assembled into
\* the AND of their leaves.
C22_Witness ==
    /\ last.op = "Answer"
    /\ last.matched
    /\ last.properties = <<R2, R1>>
    /\ last.resource.Name = And(Leaf(R2), Leaf(R1))

-----------------------------------------------------------------------------
(* Further claims about the handlers and the repository. *)

\* C23: RegisterHandler(id, h) returns false when id is present and leaves
\* the registry as it was, the handler registered first still under id;
\* otherwise it returns true and h is under id, the other entries as before.
\* Either way no handler is called.
C23_RegisterHandlerKeepsFirst ==
    [][last'.op = "RegisterHandler" =>
          /\ handled' = handled
          /\ IF last'.id \in DOMAIN Handlers
             THEN /\ ~last'.ret
                  /\ Handlers' = Handlers
             ELSE /\ last'.ret
                  /\ DOMAIN Handlers' = DOMAIN Handlers \cup {last'.id}
                  /\ Handlers'[last'.id] = last'.plugin
                  /\ \A id \in DOMAIN Handlers : Handlers'[id] = Handlers[id]]_vars

\* Handler "h2" was refused under id "h", where "h1" stays registered, having
\* received the events so far; "h2" has received none.
C23_Witness ==
    /\ last.op = "RegisterHandler"
    /\ ~last.ret
    /\ last.id = "h"
    /\ last.plugin = "h2"
    /\ Handlers = [id \in {"h"} |-> "h1"]
    /\ Len(handled["h1"]) = 2
    /\ handled["h2"] = <<>>

C26_FetchFailureReturnsNil ==
    [][(last'.op = "Fetch"
        /\ (last'.io = "error" \/ (last'.io = "ok" /\ Store = Nil))) =>
          /\ last'.bundle = Nil
          /\ Store' = Store
          /\ Handlers' = Handlers
          /\ RegisteredPlugins' = RegisteredPlugins
          /\ handled' = handled
          /\ pluginCalls' = pluginCalls]_vars

\* Fetch returned nil on a failed read although a bundle is stored, with a
\* handler and a plugin registered.
C26_Witness ==
    /\ last.op = "Fetch"
    /\ last.io = "error"
    /\ last.bundle = Nil
    /\ Store # Nil
    /\ Handlers # EmptyMap
    /\ RegisteredPlugins # EmptyMap

\* C27: Plugins() returns the ids in the plugin registry, each exactly once
\* and no other, whether the plugin is enabled or disabled; none for a new
\* enforcer.
C27_PluginsListsRegistry ==
    last.op = "Plugins" =>
        /\ Len(last.ids) = Cardinality(DOMAIN RegisteredPlugins)
        /\ {last.ids[i] : i \in 1..Len(last.ids)} = DOMAIN RegisteredPlugins
        /\ \A i, j \in 1..Len(last.ids) : last.ids[i] = last.ids[j] => i = j

\* Plugins returned both ids, "px" first, one of the plugins being enabled and
\* the other disabled.
C27_Witness ==
    /\ last.op = "Plugins"
    /\ last.ids = <<"px", "fw">>
    /\ RegisteredPlugins["fw"].enabled # RegisteredPlugins["px"].enabled

\* C28: the PolicyVersion of the stored bundle, the one Fetch returns, never
\* decreases.
C28_VersionMonotonic ==
    [][(Store # Nil /\ Store' # Nil) =>
          Store'.PolicyVersion >= Store.PolicyVersion]_vars

\* C29: applying the bundle that is stored already, so that no PolicyVersion
\* changes and no policy is added or removed, does nothing: the stored bundle
\* stays, no handler is called and no plugin is called.
C29_ReapplyDoesNothing ==
    [][(last'.op = "Apply" /\ last'.bundle = Store) =>
          /\ Store' = Store
          /\ handled' = handled
          /\ pluginCalls' = pluginCalls]_vars

\* C30: a POST /policies that stores a bundle is observed by the handlers as
\* an Apply is: each handler receives one event for it per id it is
\* registered under.
C30_PostNotifiesHandlers ==
    [][(last'.op = "SavePolicies" /\ last'.decodes /\ last'.io) =>
          /\ Store' = last'.bundle
          /\ \A h \in HandlerInstances :
                Len(handled'[h]) = Len(handled[h]) + Cardinality(RegisteredAs(h))]_vars

-----------------------------------------------------------------------------
(* Claims about calls made side by side. *)

\* Two goroutines whose calls of op, for the same id, have both returned.
BothReturned(t, u, op) ==
    /\ threads[t].pc = "done"
    /\ threads[u].pc = "done"
    /\ threads[t].op = op
    /\ threads[u].op = op
    /\ threads[t].id = threads[u].id

\* The same plugin.Apply call occurs twice in log.
AppliedTwice(log) ==
    \E i, j \in 1..Len(log) :
        /\ i < j
        /\ log[i].call = "Apply"
        /\ log[i] = log[j]

\* C31: of two Enable calls made side by side for the same id, at most one
\* returns true, and no content entry is applied to the plugin twice.
C31_ConcurrentEnableSerialized ==
    \A t \in Threads :
        \A u \in Threads \ {t} :
            BothReturned(t, u, "Enable") =>
                /\ ~(threads[t].ret /\ threads[u].ret)
                /\ \A p \in PluginInstances :
                      ID(p) = threads[t].id => ~AppliedTwice(pluginCalls[p])

\* C32: of two RegisterPlugin calls made side by side with two plugins of the
\* same id, at most one returns true; the registry then holds the instance of
\* the call that returned true, and the other instance has received no call.
C32_ConcurrentRegisterOneInstance ==
    \A t \in Threads :
        \A u \in Threads \ {t} :
            (BothReturned(t, u, "RegisterPlugin")
                /\ threads[t].plugin # threads[u].plugin) =>
                /\ ~(threads[t].ret /\ threads[u].ret)
                /\ (threads[t].ret /\ ~threads[u].ret) =>
                      /\ threads[t].id \in DOMAIN RegisteredPlugins
                      /\ RegisteredPlugins[threads[t].id].plugin = threads[t].plugin
                      /\ pluginCalls[threads[u].plugin] = <<>>

-----------------------------------------------------------------------------
(* Further claims about the plugin lifecycle. *)

\* C33: after every successful Disable(id), whether or not Apply replaced the
\* bundle while the plugin was enabled, the plugin holds no policy: all that
\* was applied to it has been removed.
C33_DisableLeavesNothingHeld ==
    (last.op = "Disable" /\ last.ret) =>
        Held(pluginCalls[RegisteredPlugins[last.id].plugin]) = {}

\* C35: every plugin.Remove(uuid) made on a plugin is for a policy that an
\* earlier plugin.Apply gave to that plugin and that no Remove has withdrawn
\* in between.
C35_RemoveOnlyWhatWasApplied ==
    \A p \in PluginInstances :
        \A k \in 1..Len(pluginCalls[p]) :
            pluginCalls[p][k].call = "Remove" =>
                \E j \in 1..(k - 1) :
                    /\ pluginCalls[p][j].call = "Apply"
                    /\ pluginCalls[p][j].id = pluginCalls[p][k].id
                    /\ \A i \in (j + 1)..(k - 1) :
                          ~(/\ pluginCalls[p][i].call = "Remove"
                            /\ pluginCalls[p][i].id = pluginCalls[p][k].id)

-----------------------------------------------------------------------------
(* Claims about Apply in flight. *)

\* How often id occurs in seq.
Count(id, seq) == Cardinality({k \in 1..Len(seq) : seq[k] = id})

\* C34: within an Apply call a handler is called only after Save has been
\* attempted, with the event for the outcome of that Save; a handler told
\* PolicyApply that then fetches the bundle, the repository answering, gets
\* the bundle this Apply was given. When Apply returns, the value Save
\* determined, every id registered since the call began has had its handler
\* called.
C34_SaveThenNotifyThenReturn ==
    [][LET frame == threads[Controller]
       IN  /\ handled' # handled =>
                 /\ frame.pc = "notify"
                 /\ frame.save \in {"ok", "fail"}
                 /\ frame.ret = (frame.save = "ok")
                 /\ frame.event = IF frame.save = "ok" THEN "PolicyApply"
                                                      ELSE "PolicyApplyError"
                 /\ frame.event = "PolicyApply" => Fetch(Store, "ok") = frame.bundle
                 /\ \E id \in DOMAIN Handlers :
                       /\ threads'[Controller].seen = Append(frame.seen, id)
                       /\ handled' =
                             [handled EXCEPT
                                 ![Handlers[id]] =
                                     Append(@, [event |-> frame.event,
                                                policyVersion |->
                                                    frame.bundle.PolicyVersion,
                                                policyDescription |->
                                                    frame.bundle.Description,
                                                details |-> frame.details])]
           /\ (frame.pc = "notify" /\ threads'[Controller] = Idle) =>
                 /\ last'.op = "Apply"
                 /\ last'.ret = frame.ret
                 /\ \A id \in frame.stayed : Count(id, frame.seen) >= 1]_vars

\* Apply has returned true: the two handlers, registered under an id each,
\* have both been told PolicyApply for the bundle that is now stored.
C34_Witness ==
    /\ threads[Controller] = Idle
    /\ last.op = "Apply"
    /\ last.ret
    /\ Store = last.bundle
    /\ DOMAIN Handlers = HandlerIDs
    /\ Handlers["h"] # Handlers["g"]
    /\ \A h \in HandlerInstances :
          /\ Len(handled[h]) = 1
          /\ handled[h][1].event = "PolicyApply"
          /\ handled[h][1].policyDescription = last.bundle.Description

\* C40: when an Apply call ends, each id that has been registered ever since
\* the call began has had its handler called exactly once on its account,
\* whatever ids other goroutines registered or unregistered meanwhile.
C40_StayingHandlerNotifiedOnce ==
    [][(threads[Controller].pc = "notify" /\ threads'[Controller].pc # "notify") =>
          \A id \in threads[Controller].stayed :
              Count(id, threads[Controller].seen) = 1]_vars

-----------------------------------------------------------------------------
(* Claims about registering again, and about a repository without a bundle. *)

\* C38: RegisterPlugin for an id that UnregisterPlugin has just taken out of
\* the registry returns true and leaves under the id an entry for the
\* instance given, whose flag is the one this registration's Enable gave it,
\* whatever the flag of the entry taken out was; the instance receives an
\* Apply call for each content entry of the stored bundle addressed to the
\* id, and no other plugin receives a call.
C38_ReRegistrationStartsAfresh ==
    [][(/\ last.op = "UnregisterPlugin"
        /\ last.ret
        /\ last'.op = "RegisterPlugin"
        /\ last'.id = last.id) =>
          /\ last'.ret
          /\ DOMAIN RegisteredPlugins' = DOMAIN RegisteredPlugins \cup {last'.id}
          /\ RegisteredPlugins'[last'.id] =
                [plugin |-> last'.plugin, enabled |-> last'.fetch = "ok"]
          /\ \A id \in DOMAIN RegisteredPlugins :
                RegisteredPlugins'[id] = RegisteredPlugins[id]
          /\ KeepsCalls(last'.plugin)
          /\ \A q \in PluginInstances \ {last'.plugin} :
                pluginCalls'[q] = pluginCalls[q]
          /\ Store # Nil =>
                LET want == Addressed(Store, last'.id)
                    made == Args(NewCalls(last'.plugin))
                IN  /\ Len(made) = Cardinality(want)
                    /\ \A ij \in want :
                          made[Rank(Store, last'.id, ij)] =
                              [call |-> "Apply",
                               id   |-> Store.Policies[ij[1]].UUID,
                               data |-> Store.Policies[ij[1]].CContents[ij[2]].Blob]
       ]_vars

\* C39: when the repository's Get reports no error and yields no bundle,
\* Answer returns false without matching anything, and Enable and Disable,
\* called for a plugin they would otherwise act on, return false, call no
\* plugin and leave the registry and every enabled flag as they were: what
\* they do when the Get reports an error.
C39_NoBundleIsAFetchFailure ==
    [][/\ (last'.op = "Answer" /\ last'.io = "nil") =>
             /\ ~last'.ret
             /\ ~last'.matched
             /\ last'.fetch = "fail"
       /\ (last'.op \in {"Enable", "Disable"} /\ last'.io = "nil") =>
             /\ last'.id \in DOMAIN RegisteredPlugins
             /\ RegisteredPlugins[last'.id].enabled = (last'.op = "Disable")
             /\ ~last'.ret
             /\ last'.fetch = "fail"
             /\ pluginCalls' = pluginCalls
             /\ RegisteredPlugins' = RegisteredPlugins]_vars

\* Disable was refused for want of a bundle, the Get having yielded none
\* without an error: "fw" is still enabled and its plugin, which holds a
\* policy of the stored bundle, received no Remove.
C39_Witness ==
    /\ last.op = "Disable"
    /\ last.io = "nil"
    /\ ~last.ret
    /\ last.id = "fw"
    /\ Store # Nil
    /\ RegisteredPlugins["fw"].enabled
    /\ Args(pluginCalls[RegisteredPlugins["fw"].plugin]) = <<ApplyCall("u1", "b1")>>

-----------------------------------------------------------------------------
(* Claims about what a call leaves alone. *)

\* C36: RegisterHandler and UnregisterHandler leave the plugin registry with
\* its enabled flags and the stored bundle as they were and call no plugin;
\* RegisterPlugin, UnregisterPlugin, Enable and Disable leave the handler
\* registry and the stored bundle as they were and call no handler.
C36_RegistriesIndependent ==
    [][/\ last'.op \in {"RegisterHandler", "UnregisterHandler"} =>
             /\ RegisteredPlugins' = RegisteredPlugins
             /\ Store' = Store
             /\ pluginCalls' = pluginCalls
       /\ last'.op \in {"RegisterPlugin", "UnregisterPlugin", "Enable", "Disable"} =>
             /\ Handlers' = Handlers
             /\ Store' = Store
             /\ handled' = handled]_vars

\* A plugin was registered and given a policy of the stored bundle while a
\* handler was registered: the handler is still registered and was not called.
C36_Witness ==
    /\ last.op = "RegisterPlugin"
    /\ last.ret
    /\ Store # Nil
    /\ Args(pluginCalls[last.plugin]) = <<ApplyCall("u1", "b1")>>
    /\ DOMAIN Handlers = {"h"}
    /\ \A h \in HandlerInstances : handled[h] = <<>>

\* C37: Answer, Fetch and Plugins, whatever their arguments and whatever the
\* repository's Get yields, leave the handler registry, the plugin registry
\* with its enabled flags and the stored bundle as they were, and call no
\* handler and no plugin.
C37_ReadsChangeNothing ==
    [][last'.op \in ReadOnlyOps =>
          /\ Handlers' = Handlers
          /\ RegisteredPlugins' = RegisteredPlugins
          /\ Store' = Store
          /\ handled' = handled
          /\ pluginCalls' = pluginCalls]_vars

\* A request was allowed on the stored bundle while a handler was registered
\* and a plugin, registered and enabled, held a policy of that bundle.
C37_Witness ==
    /\ last.op = "Answer"
    /\ last.ret
    /\ Store # Nil
    /\ DOMAIN Handlers # {}
    /\ \E id \in DOMAIN RegisteredPlugins :
          /\ RegisteredPlugins[id].enabled
          /\ Held(pluginCalls[RegisteredPlugins[id].plugin]) # {}

====
